---------------------------- MODULE Spec2Model ----------------------------
(***************************************************************************)
(* htmlPy.BaseGUI (src/htmlPy/base_gui.py): the application object that    *)
(* wraps one Qt web view.  The model follows one BaseGUI object (the most  *)
(* recently constructed one), its window widget, the document the widget   *)
(* displays, and the process-wide QApplication instance.                   *)
(*                                                                         *)
(* JavaScript is modelled by what the five snippets of the source do: a    *)
(* script is a sequence of statements, a statement assigns a value to a    *)
(* property of the document, and the text ";" joined between two snippets  *)
(* that already end in ";" is an empty statement.  Documents are HTML      *)
(* documents, which always have a body.                                    *)
(***************************************************************************)
EXTENDS Integers, Sequences, FiniteSets

VARIABLES
    qapp,       \* number of QApplication instances alive in the process
    windows,    \* number of Browser widgets created so far
    constructed,\* a BaseGUI object exists
    self,       \* the BaseGUI object's own fields
    window,     \* the state of self.window, the Browser widget
    page,       \* the document in self.window: the properties scripts assign
    loading,    \* a load was started and "load finished" is still to come
    selected,   \* history: the value the caller last selected for each key
    call,       \* history: the last operation and its argument
    repeated,   \* history: the last operation repeated the one before it
    raised,     \* the exception the last operation raised ("none" if none)
    evals,      \* the scripts the last operation handed to evaluateJavaScript
    wcalls      \* the geometry calls the last operation made on the widget

vars == <<qapp, windows, constructed, self, window, page, loading, selected,
          call, repeated, raised, evals, wcalls>>

-----------------------------------------------------------------------------
(* Bounds *)

MaxWindows == 2

-----------------------------------------------------------------------------
(* htmlPy.settings: the values the two setters recognise. *)

ENABLE == "ENABLE"
DISABLE == "DISABLE"
INPUTS_ONLY == "INPUTS_ONLY"

\* What a caller may pass: the three values and two that are none of them.
SettingValues == {ENABLE, DISABLE, INPUTS_ONLY, "3", "None"}

-----------------------------------------------------------------------------
(* The script constants, base_gui.py lines 11-23. *)

Assign(target, value) == [target |-> target, value |-> value]

\* The text ";" alone: a statement that does nothing.
EmptyStatement == [target |-> "", value |-> [kind |-> "none"]]

\* The JavaScript values the snippets assign.  A handler function is
\* described by the node names of event targets it returns true for.
Null == [kind |-> "null"]

Str(text) == [kind |-> "string", text |-> text]

\* function(e) { return false; }
ReturnFalse == [kind |-> "function", true_for |-> {}]

\* function(e) {return e.target.nodeName == 'INPUT' ||
\*                     e.target.nodeName == 'TEXTAREA'}
ReturnTargetIsInput == [kind |-> "function", true_for |-> {"INPUT", "TEXTAREA"}]

RIGHT_CLICK_SETTING_KEY == "RIGHT_CLICK"

RIGHT_CLICK_ENABLE == << Assign("document.oncontextmenu", Null) >>

RIGHT_CLICK_DISABLE == << Assign("document.oncontextmenu", ReturnFalse) >>

\* The slip of testing for INPUT alone.
RIGHT_CLICK_INPUTS_ONLY_NoTextarea ==
    << Assign("document.oncontextmenu",
              [kind |-> "function", true_for |-> {"INPUT"}]) >>

RIGHT_CLICK_INPUTS_ONLY ==
    << Assign("document.oncontextmenu", ReturnTargetIsInput) >>

TEXT_SELECTION_SETTING_KEY == "TEXT_SELECTION"

TEXT_SELECTION_ENABLE ==
    << Assign("document.onselectstart", Null),
       Assign("document.body.style.webkitUserSelect", Str("")),
       Assign("document.body.style.cursor", Str("")) >>

TEXT_SELECTION_DISABLE ==
    << Assign("document.onselectstart", ReturnFalse),
       Assign("document.body.style.webkitUserSelect", Str("none")),
       Assign("document.body.style.cursor", Str("default")) >>

-----------------------------------------------------------------------------
(* The document. *)

\* A freshly loaded document: no handlers, no inline style on the body.
FreshPage ==
    [t \in {"document.oncontextmenu", "document.onselectstart",
            "document.body.style.webkitUserSelect",
            "document.body.style.cursor"} |->
        IF t \in {"document.oncontextmenu", "document.onselectstart"}
        THEN Null ELSE Str("")]

ExecStatement(p, st) ==
    IF st.target = "" THEN p ELSE [p EXCEPT ![st.target] = st.value]

RECURSIVE ExecScript(_, _)
ExecScript(p, script) ==
    IF script = <<>> THEN p
    ELSE ExecScript(ExecStatement(p, Head(script)), Tail(script))

\* BaseGUI.evaluate_javascript: run the script in the current document.
evaluate_javascript(p, javascript_string) == ExecScript(p, javascript_string)

RECURSIVE EvaluateAll(_, _)
EvaluateAll(p, scripts) ==
    IF scripts = <<>> THEN p
    ELSE EvaluateAll(evaluate_javascript(p, Head(scripts)), Tail(scripts))

\* The elements a context-menu event is dispatched on.
NodeNames == {"DIV", "INPUT", "TEXTAREA", "BODY"}

\* The value of element.dispatchEvent(event) for a contextmenu event on an
\* element with this node name: false when the document's oncontextmenu
\* handler returns false, true when it returns true or there is none.
ContextMenuResult(p, nodeName) ==
    LET h == p["document.oncontextmenu"] IN
    IF h.kind = "null" THEN TRUE ELSE nodeName \in h.true_for

-----------------------------------------------------------------------------
(* The dict _javascript_settings: key/value pairs in insertion order. *)

DictKeys(d) == {d[i][1] : i \in 1..Len(d)}

DictHas(d, k) == k \in DictKeys(d)

DictGet(d, k) == d[CHOOSE i \in 1..Len(d) : d[i][1] = k][2]

\* d[k] = v: an existing key keeps its place, a new key goes last.
DictSet(d, k, v) ==
    IF DictHas(d, k)
    THEN [i \in 1..Len(d) |-> IF d[i][1] = k THEN <<k, v>> ELSE d[i]]
    ELSE Append(d, <<k, v>>)

\* d.pop(k, None)
DictPop(d, k) == SelectSeq(d, LAMBDA e : e[1] # k)

\* d.values()
DictValues(d) == [i \in 1..Len(d) |-> d[i][2]]

\* sep.join(strings)
RECURSIVE Join(_, _)
Join(sep, strings) ==
    IF strings = <<>> THEN <<>>
    ELSE IF Len(strings) = 1 THEN strings[1]
    ELSE strings[1] \o sep \o Join(sep, Tail(strings))


-----------------------------------------------------------------------------
(* The script settings: BaseGUI's two setters and the replay callback.     *)
(* Each returns the object after the call, the scripts it evaluated, in    *)
(* order, and the exception it raised.                                     *)

Outcome(s, scripts, exc) == [self |-> s, evals |-> scripts, raised |-> exc]

\* The slip of evaluating the DISABLE and INPUTS_ONLY scripts without
\* recording them.
right_click_setting_unsaved(s, value) ==
    IF value = ENABLE THEN
        Outcome([s EXCEPT !._javascript_settings =
                              DictPop(@, RIGHT_CLICK_SETTING_KEY)],
                <<RIGHT_CLICK_ENABLE>>, "none")
    ELSE IF value = DISABLE THEN
        Outcome(s, <<RIGHT_CLICK_DISABLE>>, "none")
    ELSE IF value = INPUTS_ONLY THEN
        Outcome(s, <<RIGHT_CLICK_INPUTS_ONLY>>, "none")
    ELSE Outcome(s, <<>>, "ValueError")

\* The slip of recording, for DISABLE, the script of the branch below it.
right_click_setting_swapped(s, value) ==
    IF value = ENABLE THEN
        Outcome([s EXCEPT !._javascript_settings =
                              DictPop(@, RIGHT_CLICK_SETTING_KEY)],
                <<RIGHT_CLICK_ENABLE>>, "none")
    ELSE IF value = DISABLE THEN
        Outcome([s EXCEPT !._javascript_settings =
                              DictSet(@, RIGHT_CLICK_SETTING_KEY,
                                      RIGHT_CLICK_INPUTS_ONLY)],
                <<RIGHT_CLICK_DISABLE>>, "none")
    ELSE IF value = INPUTS_ONLY THEN
        Outcome([s EXCEPT !._javascript_settings =
                              DictSet(@, RIGHT_CLICK_SETTING_KEY,
                                      RIGHT_CLICK_INPUTS_ONLY)],
                <<RIGHT_CLICK_INPUTS_ONLY>>, "none")
    ELSE Outcome(s, <<>>, "ValueError")

\* The slip of pop(key) without the default: KeyError when the key is absent,
\* raised after the script was evaluated.
right_click_setting_strictpop(s, value) ==
    IF value = ENABLE THEN
        IF DictHas(s._javascript_settings, RIGHT_CLICK_SETTING_KEY)
        THEN Outcome([s EXCEPT !._javascript_settings =
                                   DictPop(@, RIGHT_CLICK_SETTING_KEY)],
                     <<RIGHT_CLICK_ENABLE>>, "none")
        ELSE Outcome(s, <<RIGHT_CLICK_ENABLE>>, "KeyError")
    ELSE IF value = DISABLE THEN
        Outcome([s EXCEPT !._javascript_settings =
                              DictSet(@, RIGHT_CLICK_SETTING_KEY,
                                      RIGHT_CLICK_DISABLE)],
                <<RIGHT_CLICK_DISABLE>>, "none")
    ELSE IF value = INPUTS_ONLY THEN
        Outcome([s EXCEPT !._javascript_settings =
                              DictSet(@, RIGHT_CLICK_SETTING_KEY,
                                      RIGHT_CLICK_INPUTS_ONLY)],
                <<RIGHT_CLICK_INPUTS_ONLY>>, "none")
    ELSE Outcome(s, <<>>, "ValueError")

right_click_setting(s, value) ==
    IF value = ENABLE THEN
        Outcome([s EXCEPT !._javascript_settings =
                              DictPop(@, RIGHT_CLICK_SETTING_KEY)],
                <<RIGHT_CLICK_ENABLE>>, "none")
    ELSE IF value = DISABLE THEN
        Outcome([s EXCEPT !._javascript_settings =
                              DictSet(@, RIGHT_CLICK_SETTING_KEY,
                                      RIGHT_CLICK_DISABLE)],
                <<RIGHT_CLICK_DISABLE>>, "none")
    ELSE IF value = INPUTS_ONLY THEN
        Outcome([s EXCEPT !._javascript_settings =
                              DictSet(@, RIGHT_CLICK_SETTING_KEY,
                                      RIGHT_CLICK_INPUTS_ONLY)],
                <<RIGHT_CLICK_INPUTS_ONLY>>, "none")
    ELSE Outcome(s, <<>>, "ValueError")

\* The slip of a final else that disables instead of raising.
text_selection_setting_lax(s, value) ==
    IF value = ENABLE THEN
        Outcome([s EXCEPT !._javascript_settings =
                              DictPop(@, TEXT_SELECTION_SETTING_KEY)],
                <<TEXT_SELECTION_ENABLE>>, "none")
    ELSE
        Outcome([s EXCEPT !._javascript_settings =
                              DictSet(@, TEXT_SELECTION_SETTING_KEY,
                                      TEXT_SELECTION_DISABLE)],
                <<TEXT_SELECTION_DISABLE>>, "none")

\* The slip of clearing the dict on ENABLE instead of popping one key.
text_selection_setting_clear(s, value) ==
    IF value = ENABLE THEN
        Outcome([s EXCEPT !._javascript_settings = <<>>],
                <<TEXT_SELECTION_ENABLE>>, "none")
    ELSE IF value = DISABLE THEN
        Outcome([s EXCEPT !._javascript_settings =
                              DictSet(@, TEXT_SELECTION_SETTING_KEY,
                                      TEXT_SELECTION_DISABLE)],
                <<TEXT_SELECTION_DISABLE>>, "none")
    ELSE Outcome(s, <<>>, "ValueError")

text_selection_setting(s, value) ==
    IF value = ENABLE THEN
        Outcome([s EXCEPT !._javascript_settings =
                              DictPop(@, TEXT_SELECTION_SETTING_KEY)],
                <<TEXT_SELECTION_ENABLE>>, "none")
    ELSE IF value = DISABLE THEN
        Outcome([s EXCEPT !._javascript_settings =
                              DictSet(@, TEXT_SELECTION_SETTING_KEY,
                                      TEXT_SELECTION_DISABLE)],
                <<TEXT_SELECTION_DISABLE>>, "none")
    ELSE Outcome(s, <<>>, "ValueError")

\* The slip of evaluating each stored script on its own.
javascript_setting_call_each(s) ==
    Outcome(s, DictValues(s._javascript_settings), "none")

javascript_setting_call(s) ==
    LET javascript_string ==
            Join(<<EmptyStatement>>, DictValues(s._javascript_settings))
    IN  IF Len(javascript_string) > 0
        THEN Outcome(s, <<javascript_string>>, "none")
        ELSE Outcome(s, <<>>, "none")

-----------------------------------------------------------------------------
(* The widget and the geometry. *)

\* Browser(): a new top-level web view, not shown yet, at the toolkit's
\* default geometry, titled 'Loading...'.
NewBrowser ==
    [maximized |-> FALSE, visible |-> FALSE,
     size |-> <<640, 480>>, pos |-> <<0, 0>>,
     title |-> "Loading...", plugins |-> FALSE, developer_mode |-> FALSE,
     LocalContentCanAccessRemoteUrls |-> FALSE]

resize(w, width, height) == [w EXCEPT !.size = <<width, height>>]

move(w, x, y) == [w EXCEPT !.pos = <<x, y>>]

showMaximized(w) == [w EXCEPT !.maximized = TRUE, !.visible = TRUE]

showNormal(w) == [w EXCEPT !.maximized = FALSE, !.visible = TRUE]

\* What the call window.showNormal() evaluates to: the slot returns nothing.
showNormal_result == "None"

\* Python truth value of a call's result.
Truthy(v) == v \notin {"None", "False"}

WinOutcome(w, calls) == [window |-> w, wcalls |-> calls]

\* The read function of the live property maximized.
maximized_fget(w) == w.maximized

\* Reading instance.maximized: the descriptor calls the read function.
maximized_get(w) == maximized_fget(w)

\* The slip of not testing the maximized state.
auto_resize_unconditional(s, w) ==
    WinOutcome(move(resize(w, s._width, s._height), s._x, s._y),
               << <<"resize", s._width, s._height>>,
                  <<"move", s._x, s._y>> >>)

auto_resize(s, w) ==
    IF ~ maximized_get(w)
    THEN WinOutcome(move(resize(w, s._width, s._height), s._x, s._y),
                    << <<"resize", s._width, s._height>>,
                       <<"move", s._x, s._y>> >>)
    ELSE WinOutcome(w, <<>>)

\* The write function of the live property maximized:
\*   showMaximized() if value else showNormal() and auto_resize()
maximized_fset(s, w, value) ==
    IF value
    THEN WinOutcome(showMaximized(w), << <<"showMaximized">> >>)
    ELSE LET shown == showNormal(w) IN
         IF Truthy(showNormal_result)
         THEN LET r == auto_resize(s, shown) IN
              WinOutcome(r.window, << <<"showNormal">> >> \o r.wcalls)
         ELSE WinOutcome(shown, << <<"showNormal">> >>)

\* Writing instance.maximized: the descriptor calls the write function.
maximized_set(s, w, value) == maximized_fset(s, w, value)

-----------------------------------------------------------------------------
(* Construction. *)

\* The slip of creating a QApplication whenever construction is allowed.
acquire_app_always_new(instances, allow_overwrite) ==
    IF instances > 0 /\ ~ allow_overwrite
    THEN [raised |-> "RuntimeError", instances |-> instances]
    ELSE [raised |-> "none", instances |-> instances + 1]

\* Lines 78-84: QApplication.instance(), then raise, reuse or create.
\* instances is the number of QApplication objects in the process.
acquire_app(instances, allow_overwrite) ==
    IF instances > 0 /\ ~ allow_overwrite
    THEN [raised |-> "RuntimeError", instances |-> instances]
    ELSE IF instances > 0
    THEN [raised |-> "none", instances |-> instances]
    ELSE [raised |-> "none", instances |-> instances + 1]

\* The arguments a caller constructs the object with.
Titles == {"Application"}
Widths == {800, 1024}
Heights == {600}
XPositions == {10, 100}
YPositions == {10}
Plugins == {FALSE}
DeveloperModes == {FALSE}

BoolStr(b) == IF b THEN "True" ELSE "False"

NoObject ==
    [_javascript_settings |-> <<>>, _width |-> 0, _height |-> 0,
     _x |-> 0, _y |-> 0]

DefaultSelection ==
    [k \in {RIGHT_CLICK_SETTING_KEY, TEXT_SELECTION_SETTING_KEY} |-> ENABLE]

Record(op, arg) ==
    /\ call' = [op |-> op, arg |-> arg]
    /\ repeated' = (call = [op |-> op, arg |-> arg])

Init ==
    /\ qapp = 0
    /\ windows = 0
    /\ constructed = FALSE
    /\ self = NoObject
    /\ window = NewBrowser
    /\ page = FreshPage
    /\ loading = FALSE
    /\ selected = DefaultSelection
    /\ call = [op |-> "start", arg |-> "None"]
    /\ repeated = FALSE
    /\ raised = "none"
    /\ evals = <<>>
    /\ wcalls = <<>>

\* BaseGUI.__init__
Construct(title, width, height, x_pos, y_pos, maximized, plugins, developer_mode, allow_overwrite) ==
    LET app == acquire_app(qapp, allow_overwrite) IN
    /\ Record("BaseGUI", BoolStr(allow_overwrite))
    /\ raised' = app.raised
    /\ qapp' = app.instances
    /\ IF app.raised # "none"
       THEN UNCHANGED <<windows, constructed, self, window, page, loading,
                        selected, evals, wcalls>>
       ELSE LET s == [_javascript_settings |-> <<>>,
                      _width |-> width, _height |-> height,
                      _x |-> x_pos, _y |-> y_pos]
                w0 == [NewBrowser EXCEPT
                          !.LocalContentCanAccessRemoteUrls = TRUE,
                          !.title = title,
                          !.plugins = plugins,
                          !.developer_mode = developer_mode]
                m == maximized_set(s, w0, maximized)
                r == auto_resize(s, m.window)
            IN  /\ windows < MaxWindows
                /\ windows' = windows + 1
                /\ constructed' = TRUE
                /\ self' = s
                /\ window' = r.window
                /\ wcalls' = m.wcalls \o r.wcalls
                /\ page' = FreshPage
                /\ loading' = FALSE
                /\ selected' = DefaultSelection
                /\ evals' = <<>>

\* app.right_click_setting(value)
RightClickSetting(value) ==
    LET out == right_click_setting(self, value) IN
    /\ constructed
    /\ Record("right_click_setting", value)
    /\ self' = out.self
    /\ evals' = out.evals
    /\ raised' = out.raised
    /\ page' = EvaluateAll(page, out.evals)
    /\ selected' = IF out.raised = "none"
                   THEN [selected EXCEPT ![RIGHT_CLICK_SETTING_KEY] = value]
                   ELSE selected
    /\ wcalls' = <<>>
    /\ UNCHANGED <<qapp, windows, constructed, window, loading>>

\* app.text_selection_setting(value)
TextSelectionSetting(value) ==
    LET out == text_selection_setting(self, value) IN
    /\ constructed
    /\ Record("text_selection_setting", value)
    /\ self' = out.self
    /\ evals' = out.evals
    /\ raised' = out.raised
    /\ page' = EvaluateAll(page, out.evals)
    /\ selected' = IF out.raised = "none"
                   THEN [selected EXCEPT ![TEXT_SELECTION_SETTING_KEY] = value]
                   ELSE selected
    /\ wcalls' = <<>>
    /\ UNCHANGED <<qapp, windows, constructed, window, loading>>

\* Browser.load(url): the widget starts showing a new document, which has
\* none of the handlers and styles scripts gave the previous one.
Load ==
    /\ constructed
    /\ Record("load", "None")
    /\ page' = FreshPage
    /\ loading' = TRUE
    /\ raised' = "none"
    /\ evals' = <<>>
    /\ wcalls' = <<>>
    /\ UNCHANGED <<qapp, windows, constructed, self, window, selected>>

\* window.loadFinished fires: the slot __javascript_setting_call runs.
LoadFinished ==
    LET out == javascript_setting_call(self) IN
    /\ constructed
    /\ loading
    /\ Record("loadFinished", "None")
    /\ self' = out.self
    /\ evals' = out.evals
    /\ raised' = out.raised
    /\ page' = EvaluateAll(page, out.evals)
    /\ loading' = FALSE
    /\ wcalls' = <<>>
    /\ UNCHANGED <<qapp, windows, constructed, window, selected>>

\* app.maximized = value
SetMaximized(value) ==
    LET out == maximized_set(self, window, value) IN
    /\ constructed
    /\ Record("maximized", BoolStr(value))
    /\ window' = out.window
    /\ wcalls' = out.wcalls
    /\ raised' = "none"
    /\ evals' = <<>>
    /\ UNCHANGED <<qapp, windows, constructed, self, page, loading, selected>>

\* app.auto_resize()
AutoResize ==
    LET out == auto_resize(self, window) IN
    /\ constructed
    /\ Record("auto_resize", "None")
    /\ window' = out.window
    /\ wcalls' = out.wcalls
    /\ raised' = "none"
    /\ evals' = <<>>
    /\ UNCHANGED <<qapp, windows, constructed, self, page, loading, selected>>

\* The user drags or resizes the window, which a maximized window does not
\* allow: the widget changes, the object is not told.
UserGeometries == {[size |-> <<300, 200>>, pos |-> <<50, 50>>]}

UserResize(g) ==
    /\ constructed
    /\ ~ window.maximized
    /\ Record("user_resize", "None")
    /\ window' = [window EXCEPT !.size = g.size, !.pos = g.pos]
    /\ raised' = "none"
    /\ evals' = <<>>
    /\ wcalls' = <<>>
    /\ UNCHANGED <<qapp, windows, constructed, self, page, loading, selected>>

Next ==
    \/ \E title \in Titles, width \in Widths, height \in Heights,
          x_pos \in XPositions, y_pos \in YPositions,
          maximized \in BOOLEAN, plugins \in Plugins,
          developer_mode \in DeveloperModes, allow_overwrite \in BOOLEAN :
            Construct(title, width, height, x_pos, y_pos, maximized, plugins,
                      developer_mode, allow_overwrite)
    \/ \E value \in SettingValues : RightClickSetting(value)
    \/ \E value \in SettingValues : TextSelectionSetting(value)
    \/ Load
    \/ LoadFinished
    \/ \E value \in BOOLEAN : SetMaximized(value)
    \/ AutoResize
    \/ \E g \in UserGeometries : UserResize(g)

Spec == Init /\ [][Next]_vars

-----------------------------------------------------------------------------
(* Properties. *)

Registry == self._javascript_settings

\* The entry stored under a key: a one-element sequence, empty if absent.
Entry(d, k) == IF DictHas(d, k) THEN <<DictGet(d, k)>> ELSE <<>>

EntryCount(d, k) == Cardinality({i \in 1..Len(d) : d[i][1] = k})

\* The script the source documents for each value of each setting.
RightClickScript(v) ==
    CASE v = ENABLE -> RIGHT_CLICK_ENABLE
      [] v = DISABLE -> RIGHT_CLICK_DISABLE
      [] v = INPUTS_ONLY -> RIGHT_CLICK_INPUTS_ONLY

TextSelectionScript(v) ==
    CASE v = ENABLE -> TEXT_SELECTION_ENABLE
      [] v = DISABLE -> TEXT_SELECTION_DISABLE

\* The document a fresh page becomes under the selected behaviours.
PageUnder(sel) ==
    ExecScript(ExecScript(FreshPage,
                          RightClickScript(sel[RIGHT_CLICK_SETTING_KEY])),
               TextSelectionScript(sel[TEXT_SELECTION_SETTING_KEY]))

\* C1: whenever no load is pending, and so once the load-finished callback
\* has run after a load, the handlers and styles in force in the document are
\* those of the value the caller last selected for each setting (ENABLE when
\* none was selected), whatever setter calls and loads came before.
C1_SettingsSurviveLoad ==
    (constructed /\ ~ loading) => page = PageUnder(selected)

C1_Witness ==
    /\ call.op = "loadFinished"
    /\ selected[RIGHT_CLICK_SETTING_KEY] = INPUTS_ONLY
    /\ selected[TEXT_SELECTION_SETTING_KEY] = DISABLE
    /\ page = PageUnder(selected)
    /\ page # FreshPage

\* C2: the load-finished callback evaluates nothing when the registry is
\* empty and otherwise evaluates one script, which is the stored scripts,
\* each once, with the separator between them; with the right-click DISABLE
\* script as the only entry it evaluates exactly that script.
C2_ReplayOnce ==
    call.op = "loadFinished" =>
        /\ Len(evals) <= 1
        /\ (Registry = <<>>) => (evals = <<>>)
        /\ (Len(Registry) = 1) => (evals = <<Registry[1][2]>>)
        /\ (Len(Registry) = 2) =>
              /\ Len(evals) = 1
              /\ evals[1] \in
                    {Registry[1][2] \o <<EmptyStatement>> \o Registry[2][2],
                     Registry[2][2] \o <<EmptyStatement>> \o Registry[1][2]}
        /\ (Registry = << <<RIGHT_CLICK_SETTING_KEY, RIGHT_CLICK_DISABLE>> >>)
              => (evals = <<RIGHT_CLICK_DISABLE>>)
        /\ Len(Registry) <= 2

C2_Witness ==
    /\ call.op = "loadFinished"
    /\ Len(Registry) = 2
    /\ Len(evals) = 1
    /\ Len(evals[1]) = 5

\* C3: a right_click_setting call with a value other than ENABLE, DISABLE,
\* INPUTS_ONLY, and a text_selection_setting call with a value other than
\* ENABLE, DISABLE, raises ValueError, evaluates no script and leaves the
\* registry and the document as they were.
C3_InvalidValueRejected ==
    [][ /\ (/\ call'.op = "right_click_setting"
            /\ call'.arg \notin {ENABLE, DISABLE, INPUTS_ONLY})
           => (/\ raised' = "ValueError"
               /\ evals' = <<>>
               /\ self' = self
               /\ page' = page)
        /\ (/\ call'.op = "text_selection_setting"
            /\ call'.arg \notin {ENABLE, DISABLE})
           => (/\ raised' = "ValueError"
               /\ evals' = <<>>
               /\ self' = self
               /\ page' = page) ]_vars

C3_Witness ==
    /\ call.op = "text_selection_setting"
    /\ call.arg = INPUTS_ONLY
    /\ raised = "ValueError"
    /\ evals = <<>>
    /\ Len(Registry) = 2

\* C4: after right_click_setting with a valid value the one script evaluated
\* is the documented script of that value and the document's handler is the
\* one it assigns; after a non-default value of either setter the registry
\* holds that script, once, under the setting's key.
C4_OverrideStored ==
    /\ (call.op = "right_click_setting" /\ call.arg \in {ENABLE, DISABLE, INPUTS_ONLY})
          => /\ raised = "none"
             /\ evals = <<RightClickScript(call.arg)>>
             /\ page["document.oncontextmenu"] =
                    RightClickScript(call.arg)[1].value
    /\ (call.op = "right_click_setting" /\ call.arg \in {DISABLE, INPUTS_ONLY})
          => /\ EntryCount(Registry, RIGHT_CLICK_SETTING_KEY) = 1
             /\ Entry(Registry, RIGHT_CLICK_SETTING_KEY) =
                    <<RightClickScript(call.arg)>>
    /\ (call.op = "text_selection_setting" /\ call.arg = DISABLE)
          => /\ raised = "none"
             /\ evals = <<TEXT_SELECTION_DISABLE>>
             /\ page["document.onselectstart"] = ReturnFalse
             /\ EntryCount(Registry, TEXT_SELECTION_SETTING_KEY) = 1
             /\ Entry(Registry, TEXT_SELECTION_SETTING_KEY) =
                    <<TEXT_SELECTION_DISABLE>>

\* The right-click entry was in the registry before the text-selection entry
\* and before this call, which left it in its place with the new script.
C4_Witness ==
    /\ call.op = "right_click_setting"
    /\ call.arg = DISABLE
    /\ Registry = << <<RIGHT_CLICK_SETTING_KEY, RIGHT_CLICK_DISABLE>>,
                     <<TEXT_SELECTION_SETTING_KEY, TEXT_SELECTION_DISABLE>> >>

\* C5: after a setter call with ENABLE, first or repeated, nothing was raised,
\* the enabling script was the one script evaluated and the registry has no
\* entry under the setting's key.
C5_EnableRemoves ==
    /\ (call.op = "right_click_setting" /\ call.arg = ENABLE)
          => /\ raised = "none"
             /\ evals = <<RIGHT_CLICK_ENABLE>>
             /\ ~ DictHas(Registry, RIGHT_CLICK_SETTING_KEY)
    /\ (call.op = "text_selection_setting" /\ call.arg = ENABLE)
          => /\ raised = "none"
             /\ evals = <<TEXT_SELECTION_ENABLE>>
             /\ ~ DictHas(Registry, TEXT_SELECTION_SETTING_KEY)

\* ENABLE was called twice in a row.
C5_Witness ==
    /\ call.op = "right_click_setting"
    /\ call.arg = ENABLE
    /\ repeated
    /\ raised = "none"
    /\ ~ DictHas(Registry, RIGHT_CLICK_SETTING_KEY)

CachedGeometryCalls ==
    << <<"resize", self._width, self._height>>, <<"move", self._x, self._y>> >>

\* C6: setting maximized to False on a maximized window restores the window
\* and then applies the cached geometry: showNormal, resize to
\* (_width, _height), move to (_x, _y).
C6_RestoreReappliesGeometry ==
    [][ (/\ window.maximized
         /\ call'.op = "maximized"
         /\ call'.arg = "False")
        => (/\ wcalls' = << <<"showNormal">> >> \o CachedGeometryCalls
            /\ window'.size = <<self._width, self._height>>
            /\ window'.pos = <<self._x, self._y>>) ]_vars

\* C7: a construction while a QApplication exists and allow_overwrite is
\* false raises RuntimeError and changes nothing; any other construction
\* succeeds, creates a window, and creates a QApplication only if there was
\* none; there is never more than one QApplication.
C7_SingleApplication ==
    /\ [](qapp <= 1)
    /\ [][ (call'.op = "BaseGUI") =>
             IF qapp > 0 /\ call'.arg = "False"
             THEN /\ raised' = "RuntimeError"
                  /\ UNCHANGED <<qapp, windows, constructed, self, window,
                                 page, loading, selected, evals, wcalls>>
             ELSE /\ raised' = "none"
                  /\ qapp' = (IF qapp > 0 THEN qapp ELSE 1)
                  /\ windows' = windows + 1
                  /\ constructed' ]_vars

C7_Witness ==
    /\ call.op = "BaseGUI"
    /\ call.arg = "False"
    /\ raised = "RuntimeError"
    /\ qapp = 1
    /\ windows = 1

\* The result the right-click setting promises for a context-menu event.
ExpectedContextMenu(v, nodeName) ==
    CASE v = ENABLE -> TRUE
      [] v = DISABLE -> FALSE
      [] v = INPUTS_ONLY -> nodeName \in {"INPUT", "TEXTAREA"}

\* C8: on a loaded document a context-menu event on any element yields true
\* when right-click was never set or last set to ENABLE, false when last set
\* to DISABLE, and, when last set to INPUTS_ONLY, true on INPUT and TEXTAREA
\* elements and false on all others.
C8_ContextMenuBySetting ==
    (constructed /\ ~ loading) =>
        \A n \in NodeNames :
            ContextMenuResult(page, n) =
                ExpectedContextMenu(selected[RIGHT_CLICK_SETTING_KEY], n)

C8_Witness ==
    /\ call.op = "loadFinished"
    /\ selected[RIGHT_CLICK_SETTING_KEY] = INPUTS_ONLY
    /\ ContextMenuResult(page, "DIV") = FALSE
    /\ ContextMenuResult(page, "INPUT") = TRUE
    /\ ContextMenuResult(page, "TEXTAREA") = TRUE

\* C9: auto_resize on a window that is not maximized resizes it to the cached
\* size and then moves it to the cached position; on a maximized window it
\* makes no call and the window stays as it is; it never changes the cache,
\* and neither does the user resizing or moving the window.
C9_AutoResizeAppliesCache ==
    [][ /\ (call'.op = "auto_resize") =>
              /\ self' = self
              /\ IF window.maximized
                 THEN /\ wcalls' = <<>>
                      /\ window' = window
                 ELSE /\ wcalls' = CachedGeometryCalls
                      /\ window'.size = <<self._width, self._height>>
                      /\ window'.pos = <<self._x, self._y>>
                      /\ ~ window'.maximized
        /\ (call'.op = "user_resize") => (self' = self) ]_vars

\* auto_resize ran on a maximized window whose geometry is not the cached one.
C9_Witness ==
    /\ call.op = "auto_resize"
    /\ window.maximized
    /\ wcalls = <<>>
    /\ window.size # <<self._width, self._height>>

\* C10: the registry is empty after construction; it always holds at most
\* one entry per key, under the two setting keys only; a right-click entry is
\* the DISABLE or the INPUTS_ONLY script, a text-selection entry is the
\* DISABLE script; right_click_setting leaves the text-selection entry as it
\* was, text_selection_setting the right-click entry, and the load-finished
\* callback the whole registry.
C10_RegistryWellFormed ==
    /\ []( /\ (call.op = "BaseGUI" /\ raised = "none") => (Registry = <<>>)
           /\ DictKeys(Registry) \subseteq
                  {RIGHT_CLICK_SETTING_KEY, TEXT_SELECTION_SETTING_KEY}
           /\ Len(Registry) = Cardinality(DictKeys(Registry))
           /\ DictHas(Registry, RIGHT_CLICK_SETTING_KEY) =>
                  DictGet(Registry, RIGHT_CLICK_SETTING_KEY) \in
                      {RIGHT_CLICK_DISABLE, RIGHT_CLICK_INPUTS_ONLY}
           /\ DictHas(Registry, TEXT_SELECTION_SETTING_KEY) =>
                  DictGet(Registry, TEXT_SELECTION_SETTING_KEY) =
                      TEXT_SELECTION_DISABLE )
    /\ [][ /\ (call'.op = "right_click_setting") =>
                Entry(Registry', TEXT_SELECTION_SETTING_KEY) =
                    Entry(Registry, TEXT_SELECTION_SETTING_KEY)
           /\ (call'.op = "text_selection_setting") =>
                Entry(Registry', RIGHT_CLICK_SETTING_KEY) =
                    Entry(Registry, RIGHT_CLICK_SETTING_KEY)
           /\ (call'.op = "loadFinished") => (Registry' = Registry) ]_vars

C10_Witness ==
    /\ call.op = "text_selection_setting"
    /\ call.arg = ENABLE
    /\ Entry(Registry, RIGHT_CLICK_SETTING_KEY) = <<RIGHT_CLICK_INPUTS_ONLY>>
    /\ Entry(Registry, TEXT_SELECTION_SETTING_KEY) = <<>>

=============================================================================
